---- MODULE Spec2Model ----
(***************************************************************************)
(* useAsyncData (react-dedupe-async): the per-instance request             *)
(* coordinator, the process-wide asyncDataCache and the subscribers        *)
(* registry, as a state machine.  One action per handler the host or the   *)
(* promise machinery runs: the mount effect, the effect re-run on an       *)
(* input change, the unmount cleanup, refetch(), the settlement of a       *)
(* producer promise (which runs the continuations awaiting it) and the     *)
(* resumption of an await on a promise that had already settled.           *)
(***************************************************************************)
EXTENDS Integers, Sequences, FiniteSets, TLC

\* ------------------------------------------------------------------ bounds
MaxStarts == 3    \* fetch starts (mount, input change, refetch) in one behaviour
MaxCallbacks == 3  \* callbacks subscribed one after another in the registry harness
MaxFailures == 1  \* producer invocations that reject or throw in one behaviour

\* ------------------------------------------------------------ input domains
Inst == {1, 2}     \* the hook instances that can be mounted
Keys == {"k1", "k2"}
NoKey == "undefined"
KeyArgs == Keys \cup {NoKey}
Null == "null"
NullErr == [kind |-> "null", text |-> ""]

\* Results are opaque to the hook (it never inspects them), so invocation p
\* yields a result of its own: no two invocations are forced to agree.
ValueOf(p) == "v" \o ToString(p)

\* what the promise of invocation p can reject with: a value that is no Error
FailuresOf(p) == {[kind |-> "raw", text |-> "oops" \o ToString(p)]}

\* (variant: the failure is stored as it was caught)
ToErrorRaw(err) == err

\* err instanceof Error ? err : new Error(String(err))
ToError(err) ==
    IF err.kind = "Error" THEN err ELSE [kind |-> "Error", text |-> err.text]

\* ------------------------------------------------------------ cache entries
\* CacheEntry; src is the invocation the entry's result came from (0: none)
Entry(promise, status, d, e, src) ==
    [promise |-> promise, status |-> status, data |-> d, error |-> e, src |-> src]

\* asyncDataCache.get(key) === undefined
AbsentEntry == Entry(0, "absent", Null, NullErr, 0)

\* the initial value of the cacheEntryStatus ref
IdleEntry == Entry(0, "idle", Null, NullErr, 0)

VARIABLES
    asyncDataCache,    \* Keys -> CacheEntry (AbsentEntry: no entry)
    subscribers,       \* partial map key -> set of callbacks <<instance, run>>
    phase,             \* instance -> "unmounted" | "mounted" | "torn"
    cacheKey,          \* instance -> its cacheKey argument
    data,              \* instance -> useState data
    isLoading,         \* instance -> useState isLoading
    error,             \* instance -> useState error
    latestRequestId,   \* instance -> latestRequestId.current
    cacheEntryStatus,  \* instance -> cacheEntryStatus.current
    activeRun,         \* instance -> the effect run whose cleanupCalled is false (0: none)
    applied,           \* instance -> invocation whose result was last written to data/error
    promises,          \* sequence of producer invocations, by invocation id
    conts,             \* continuations suspended at an await
    cohort,            \* key -> instances in flight together since the last start/teardown
    starts,            \* fetch starts so far (mounts, input changes, refetches)
    escaped,           \* coroutines <<instance, request id>> that ended by throwing
    notified           \* the last direct call of notifySubscribers: what it invoked

vars == <<asyncDataCache, subscribers, phase, cacheKey, data, isLoading, error,
          latestRequestId, cacheEntryStatus, activeRun, applied, promises, conts,
          cohort, starts, escaped, notified>>

\* The program state as one record, threaded through the handlers' statements
Cur ==
    [cache |-> asyncDataCache, subs |-> subscribers, phase |-> phase,
     key |-> cacheKey, data |-> data, loading |-> isLoading, error |-> error,
     req |-> latestRequestId, ces |-> cacheEntryStatus, run |-> activeRun,
     applied |-> applied, prom |-> promises, conts |-> conts, escaped |-> escaped]

\* ------------------------------------------------------ subscriber registry
\* subscribe(cacheKey, callback)
subscribe(s, k, cb) ==
    LET had == IF k \in DOMAIN s.subs THEN s.subs[k] ELSE {}
    IN [s EXCEPT !.subs = [x \in (DOMAIN s.subs) \cup {k} |->
                              IF x = k THEN had \cup {cb} ELSE s.subs[x]]]

\* (variant: the key's set is left in the registry when it becomes empty)
unsubscribeNoPrune(s, k, cb) ==
    IF k \in DOMAIN s.subs THEN [s EXCEPT !.subs[k] = @ \ {cb}] ELSE s

\* unsubscribe(cacheKey, callback)
unsubscribe(s, k, cb) ==
    IF k \in DOMAIN s.subs
    THEN LET left == s.subs[k] \ {cb}
         IN IF left = {}
            THEN [s EXCEPT !.subs = [x \in (DOMAIN s.subs) \ {k} |-> s.subs[x]]]
            ELSE [s EXCEPT !.subs[k] = left]
    ELSE s

\* handleCacheUpdate of the effect run cb = <<instance, run>>, subscribed under k
handleCacheUpdate(s, cb, k) ==
    LET j == cb[1]
        cached == s.cache[k]
    IN IF s.run[j] # cb[2] THEN s     \* cleanupCalled
       ELSE IF cached.status = "resolved"
       THEN [s EXCEPT !.data[j] = cached.data, !.loading[j] = FALSE,
                      !.error[j] = NullErr, !.applied[j] = cached.src]
       ELSE IF cached.status = "rejected"
       THEN [s EXCEPT !.error[j] = cached.error, !.data[j] = Null,
                      !.loading[j] = FALSE, !.applied[j] = cached.src]
       ELSE s

RECURSIVE forEach(_, _, _)
\* Set.prototype.forEach(callback => callback())
forEach(s, cbs, k) ==
    IF cbs = {} THEN s
    ELSE LET cb == CHOOSE c \in cbs : TRUE
         IN forEach(handleCacheUpdate(s, cb, k), cbs \ {cb}, k)

\* (variant: no callback is invoked)
notifyNone(s, k) == s

\* notifySubscribers(cacheKey)
notifySubscribers(s, k) ==
    IF k \in DOMAIN s.subs THEN forEach(s, s.subs[k], k) ELSE s

\* ------------------------------------------------------------------ fetchData
\* A producer invocation: asyncFunc() called by instance i under request id rid
Invocation(i, rid, k, origin, st, e) ==
    [st |-> st, val |-> Null, err |-> e, owner |-> i, epoch |-> rid,
     key |-> k, origin |-> origin]

\* A coroutine suspended at an await: fetchData at `await requestPromise`
\* ("fetch"), initializeFetch at `await cached.promise` ("attach")
Cont(i, rid, p, kind, k) ==
    [inst |-> i, rid |-> rid, promise |-> p, kind |-> kind, key |-> k]

\* (variant: the result is applied whatever the latest request id is)
onResolvedNoGate(s, i, rid, k, p, result) ==
    LET s1 == [s EXCEPT !.data[i] = result, !.error[i] = NullErr, !.applied[i] = p]
    IN IF k # NoKey
       THEN LET updated == Entry(p, "resolved", result, NullErr, p)
            IN notifySubscribers([s1 EXCEPT !.cache[k] = updated, !.ces[i] = updated], k)
       ELSE s1

\* (variant: the result is applied to the instance but not published)
onResolvedNoPublish(s, i, rid, k, p, result) ==
    IF rid = s.req[i]
    THEN [s EXCEPT !.data[i] = result, !.error[i] = NullErr, !.applied[i] = p]
    ELSE s

\* fetchData after `await requestPromise` returned result
onResolved(s, i, rid, k, p, result) ==
    IF rid = s.req[i]
    THEN LET s1 == [s EXCEPT !.data[i] = result, !.error[i] = NullErr,
                             !.applied[i] = p]
         IN IF k # NoKey
            THEN LET updated == Entry(p, "resolved", result, NullErr, p)
                 IN notifySubscribers(
                        [s1 EXCEPT !.cache[k] = updated, !.ces[i] = updated], k)
            ELSE s1
    ELSE s

\* (variant: the catch block leaves the data of the previous fetch in place)
onRejectedKeepsData(s, i, rid, k, p, err) ==
    IF rid = s.req[i]
    THEN LET errorToSet == ToError(err)
             s1 == [s EXCEPT !.error[i] = errorToSet, !.applied[i] = p]
         IN IF k # NoKey
            THEN LET updated == Entry(0, "rejected", Null, errorToSet, p)
                 IN notifySubscribers(
                        [s1 EXCEPT !.cache[k] = updated, !.ces[i] = updated], k)
            ELSE s1
    ELSE s

\* (variant: the catch block rethrows what a superseded request caught)
onRejectedRethrowsStale(s, i, rid, k, p, err) ==
    IF rid = s.req[i]
    THEN LET errorToSet == ToError(err)
             s1 == [s EXCEPT !.error[i] = errorToSet, !.data[i] = Null,
                             !.applied[i] = p]
         IN IF k # NoKey
            THEN LET updated == Entry(0, "rejected", Null, errorToSet, p)
                 IN notifySubscribers(
                        [s1 EXCEPT !.cache[k] = updated, !.ces[i] = updated], k)
            ELSE s1
    ELSE [s EXCEPT !.escaped = @ \cup {<<i, rid>>}]

\* (variant: a rejection is applied to the instance but not published)
onRejectedNoPublish(s, i, rid, k, p, err) ==
    IF rid = s.req[i]
    THEN [s EXCEPT !.error[i] = ToError(err), !.data[i] = Null, !.applied[i] = p]
    ELSE s

\* (variant: the rejected entry keeps the handle of the failed invocation)
onRejectedKeepsHandle(s, i, rid, k, p, err) ==
    IF rid = s.req[i]
    THEN LET errorToSet == ToError(err)
             s1 == [s EXCEPT !.error[i] = errorToSet, !.data[i] = Null,
                             !.applied[i] = p]
         IN IF k # NoKey
            THEN LET updated == Entry(p, "rejected", Null, errorToSet, p)
                 IN notifySubscribers(
                        [s1 EXCEPT !.cache[k] = updated, !.ces[i] = updated], k)
            ELSE s1
    ELSE s

\* fetchData's catch block, for a rejection or a throw of asyncFunc()
onRejected(s, i, rid, k, p, err) ==
    IF rid = s.req[i]
    THEN LET errorToSet == ToError(err)
             s1 == [s EXCEPT !.error[i] = errorToSet, !.data[i] = Null,
                             !.applied[i] = p]
         IN IF k # NoKey
            THEN LET updated == Entry(0, "rejected", Null, errorToSet, p)
                 IN notifySubscribers(
                        [s1 EXCEPT !.cache[k] = updated, !.ces[i] = updated], k)
            ELSE s1
    ELSE s

\* (variant: the finally block never clears isLoading)
finallyBlockNever(s, i, rid) == s

\* (variant: the finally block clears isLoading whatever the latest request id is)
finallyBlockNoGate(s, i, rid) == [s EXCEPT !.loading[i] = FALSE]

\* fetchData's finally block
finallyBlock(s, i, rid) ==
    IF rid = s.req[i] THEN [s EXCEPT !.loading[i] = FALSE] ELSE s

\* fetchData's try block up to the await: thr = NullErr when asyncFunc()
\* returns a promise, the thrown value when it throws
callProducer(s, i, rid, thr, origin) ==
    LET k == s.key[i]
        p == Len(s.prom) + 1
    IN IF thr = NullErr
       THEN LET s1 == [s EXCEPT !.prom = Append(@,
                                   Invocation(i, rid, k, origin, "unsettled", NullErr)),
                                !.conts = @ \cup {Cont(i, rid, p, "fetch", k)}]
                newCacheEntry == Entry(p, "pending", Null, NullErr, 0)
            IN IF k # NoKey
               THEN [s1 EXCEPT !.cache[k] = newCacheEntry, !.ces[i] = newCacheEntry]
               ELSE s1
       ELSE LET s1 == [s EXCEPT !.prom = Append(@,
                                   Invocation(i, rid, k, origin, "threw", thr))]
            IN finallyBlock(onRejected(s1, i, rid, k, p, thr), i, rid)

\* fetchData(currentRequestId), up to its first await or its return
fetchData(s, i, rid, thr, origin) ==
    LET k == s.key[i]
        s1 == [s EXCEPT !.loading[i] = TRUE, !.error[i] = NullErr]
        cached == IF k # NoKey THEN s1.cache[k] ELSE AbsentEntry
    IN IF k # NoKey /\ cached.status = "pending"
          /\ s1.ces[i].promise = cached.promise
       THEN s1
       ELSE IF k # NoKey /\ cached.status = "resolved"
       THEN [s1 EXCEPT !.data[i] = cached.data, !.loading[i] = FALSE,
                       !.error[i] = NullErr, !.applied[i] = cached.src]
       ELSE callProducer(s1, i, rid, thr, origin)

\* ------------------------------------------------------------------ the effect
\* (variant: adopting a resolved entry leaves isLoading as it was)
initializeFetchKeepsLoading(s, i, thr) ==
    LET currentRequestId == s.req[i] + 1
        k == s.key[i]
        s1 == [s EXCEPT !.req[i] = currentRequestId, !.run[i] = currentRequestId]
        cached == IF k # NoKey THEN s1.cache[k] ELSE AbsentEntry
    IN IF k # NoKey /\ cached.status = "resolved"
       THEN [s1 EXCEPT !.data[i] = cached.data, !.error[i] = NullErr,
                       !.applied[i] = cached.src]
       ELSE IF k # NoKey /\ cached.status = "pending"
               /\ s1.ces[i].promise = cached.promise
       THEN [s1 EXCEPT !.loading[i] = TRUE,
                       !.conts = @ \cup {Cont(i, currentRequestId,
                                              cached.promise, "attach", k)}]
       ELSE fetchData(s1, i, currentRequestId, thr, "effect")

\* (variant: a rejected entry is adopted like a resolved one)
initializeFetchAdoptsRejected(s, i, thr) ==
    LET currentRequestId == s.req[i] + 1
        k == s.key[i]
        s1 == [s EXCEPT !.req[i] = currentRequestId, !.run[i] = currentRequestId]
        cached == IF k # NoKey THEN s1.cache[k] ELSE AbsentEntry
    IN IF k # NoKey /\ cached.status = "resolved"
       THEN [s1 EXCEPT !.data[i] = cached.data, !.loading[i] = FALSE,
                       !.error[i] = NullErr, !.applied[i] = cached.src]
       ELSE IF k # NoKey /\ cached.status = "rejected"
       THEN [s1 EXCEPT !.error[i] = cached.error, !.data[i] = Null,
                       !.loading[i] = FALSE, !.applied[i] = cached.src]
       ELSE IF k # NoKey /\ cached.status = "pending"
               /\ s1.ces[i].promise = cached.promise
       THEN [s1 EXCEPT !.loading[i] = TRUE,
                       !.conts = @ \cup {Cont(i, currentRequestId,
                                              cached.promise, "attach", k)}]
       ELSE fetchData(s1, i, currentRequestId, thr, "effect")

\* initializeFetch(), up to its first await or its return
initializeFetch(s, i, thr) ==
    LET currentRequestId == s.req[i] + 1
        k == s.key[i]
        s1 == [s EXCEPT !.req[i] = currentRequestId, !.run[i] = currentRequestId]
        cached == IF k # NoKey THEN s1.cache[k] ELSE AbsentEntry
    IN IF k # NoKey
       THEN IF cached.status = "resolved"
            THEN [s1 EXCEPT !.data[i] = cached.data, !.loading[i] = FALSE,
                            !.error[i] = NullErr, !.applied[i] = cached.src]
            ELSE IF cached.status = "pending"
                    /\ s1.ces[i].promise = cached.promise
            THEN [s1 EXCEPT !.loading[i] = TRUE,
                            !.conts = @ \cup {Cont(i, currentRequestId,
                                                   cached.promise, "attach", k)}]
            ELSE fetchData(s1, i, currentRequestId, thr, "effect")
       ELSE fetchData(s1, i, currentRequestId, thr, "effect")

\* (variant: the effect subscribes whether or not there is a cacheKey)
effectSubscribesAlways(s, i, thr) ==
    LET s1 == initializeFetch(s, i, thr)
    IN subscribe(s1, s.key[i], <<i, s1.run[i]>>)

\* the useEffect body: initializeFetch(), then subscribe(cacheKey, handleCacheUpdate)
effect(s, i, thr) ==
    LET s1 == initializeFetch(s, i, thr)
        k == s.key[i]
    IN IF k # NoKey THEN subscribe(s1, k, <<i, s1.run[i]>>) ELSE s1

\* (variant: the cleanup leaves the callback registered)
cleanupNoUnsubscribe(s, i) == [s EXCEPT !.run[i] = 0, !.req[i] = @ + 1]

\* (variant: the cleanup does not invalidate the latest request id)
cleanupNoBump(s, i) ==
    LET k == s.key[i]
        cb == <<i, s.run[i]>>
        s1 == [s EXCEPT !.run[i] = 0]
    IN IF k # NoKey THEN unsubscribe(s1, k, cb) ELSE s1

\* the cleanup returned by the effect
cleanup(s, i) ==
    LET k == s.key[i]
        cb == <<i, s.run[i]>>
        s1 == [s EXCEPT !.run[i] = 0, !.req[i] = @ + 1]
    IN IF k # NoKey THEN unsubscribe(s1, k, cb) ELSE s1

\* (variant: the cache entry is kept)
refetchNoClear(s, i, thr) ==
    LET currentRequestId == s.req[i] + 1
    IN fetchData([s EXCEPT !.req[i] = currentRequestId], i, currentRequestId,
                 thr, "refetch")

\* refetch()
refetch(s, i, thr) ==
    LET currentRequestId == s.req[i] + 1
        k == s.key[i]
        s1 == [s EXCEPT !.req[i] = currentRequestId]
        s2 == IF k # NoKey
              THEN [s1 EXCEPT !.cache[k] = AbsentEntry, !.ces[i] = IdleEntry]
              ELSE s1
    IN fetchData(s2, i, currentRequestId, thr, "refetch")

\* --------------------------------------------------------------- continuations
\* (variant: the awaited outcome is dropped as if the effect had been cleaned up)
attachSettledDrops(s, c, pr) == s

\* initializeFetch after `await cached.promise` settled
attachSettled(s, c, pr) ==
    LET i == c.inst
        live == s.run[i] = c.rid /\ c.rid = s.req[i]   \* !cleanupCalled && id is latest
    IN IF ~live THEN s
       ELSE IF pr.st = "resolved"
       THEN [s EXCEPT !.data[i] = pr.val, !.error[i] = NullErr,
                      !.applied[i] = c.promise, !.loading[i] = FALSE]
       ELSE [s EXCEPT !.error[i] = ToError(pr.err), !.data[i] = Null,
                      !.applied[i] = c.promise, !.loading[i] = FALSE]

\* (variant: a fetch whose promise rejected calls the producer again)
resumeRetries(s, c) ==
    LET pr == s.prom[c.promise]
    IN IF c.kind = "fetch"
       THEN IF pr.st = "resolved"
            THEN finallyBlock(onResolved(s, c.inst, c.rid, c.key, c.promise, pr.val),
                              c.inst, c.rid)
            ELSE LET s1 == finallyBlock(
                               onRejected(s, c.inst, c.rid, c.key, c.promise, pr.err),
                               c.inst, c.rid)
                 IN IF c.rid = s.req[c.inst]
                    THEN callProducer(s1, c.inst, c.rid, NullErr, "retry")
                    ELSE s1
       ELSE attachSettled(s, c, pr)

\* resume one suspended coroutine with the outcome of the promise it awaits
resume(s, c) ==
    LET pr == s.prom[c.promise]
    IN IF c.kind = "fetch"
       THEN IF pr.st = "resolved"
            THEN finallyBlock(onResolved(s, c.inst, c.rid, c.key, c.promise, pr.val),
                              c.inst, c.rid)
            ELSE finallyBlock(onRejected(s, c.inst, c.rid, c.key, c.promise, pr.err),
                              c.inst, c.rid)
       ELSE attachSettled(s, c, pr)

RECURSIVE resumeAll(_, _)
\* the reactions of a promise run in the order they were registered
resumeAll(s, cs) ==
    IF cs = {} THEN s
    ELSE LET c == CHOOSE x \in cs : \A y \in cs : x.rid <= y.rid
         IN resumeAll(resume(s, c), cs \ {c})

\* a producer promise settles: resolved with v (e = NullErr) or rejected with e
settle(s, p, v, e) ==
    LET st == IF e = NullErr THEN "resolved" ELSE "rejected"
        s1 == [s EXCEPT !.prom[p].st = st, !.prom[p].val = v, !.prom[p].err = e]
        waiting == {c \in s.conts : c.promise = p}
    IN resumeAll([s1 EXCEPT !.conts = @ \ waiting], waiting)

\* ------------------------------------------------------------------- actions
\* instance i awaits, under its latest request id, a promise not yet settled
InFlight(s, i) ==
    \E c \in s.conts :
        c.inst = i /\ c.rid = s.req[i] /\ s.prom[c.promise].st = "unsettled"

\* the instances of key k that are in flight together in s, if at least two
Together(s, k) ==
    LET g == {i \in Inst : s.phase[i] = "mounted" /\ s.key[i] = k /\ InFlight(s, i)}
    IN IF Cardinality(g) >= 2 THEN g ELSE {}

\* s becomes the program state
Install(s) ==
    /\ asyncDataCache' = s.cache
    /\ subscribers' = s.subs
    /\ phase' = s.phase
    /\ cacheKey' = s.key
    /\ data' = s.data
    /\ isLoading' = s.loading
    /\ error' = s.error
    /\ latestRequestId' = s.req
    /\ cacheEntryStatus' = s.ces
    /\ activeRun' = s.run
    /\ applied' = s.applied
    /\ promises' = s.prom
    /\ conts' = s.conts
    /\ escaped' = s.escaped
    /\ notified' = notified

\* notifySubscribers has not been called directly
NoCall == [key |-> NoKey, registered |-> {}, invoked |-> {}, threw |-> FALSE]

\* invocations that have rejected or thrown so far
Failed == {p \in 1..Len(promises) : promises[p].st \in {"rejected", "threw"}}

\* what asyncFunc() can do when called as invocation p: return a promise
\* (NullErr), or throw an Error object
ThrowsOf(p) ==
    {NullErr} \cup IF Cardinality(Failed) < MaxFailures
                   THEN {[kind |-> "Error", text |-> "boom" \o ToString(p)]}
                   ELSE {}

Init ==
    /\ asyncDataCache = [k \in Keys |-> AbsentEntry]
    /\ subscribers = [k \in {} |-> {}]
    /\ phase = [i \in Inst |-> "unmounted"]
    /\ cacheKey = [i \in Inst |-> NoKey]
    /\ data = [i \in Inst |-> Null]
    /\ isLoading = [i \in Inst |-> TRUE]
    /\ error = [i \in Inst |-> NullErr]
    /\ latestRequestId = [i \in Inst |-> 0]
    /\ cacheEntryStatus = [i \in Inst |-> IdleEntry]
    /\ activeRun = [i \in Inst |-> 0]
    /\ applied = [i \in Inst |-> 0]
    /\ promises = << >>
    /\ conts = {}
    /\ cohort = [k \in Keys |-> {}]
    /\ starts = 0
    /\ escaped = {}
    /\ notified = NoCall

\* keys are interchangeable: "k2" is given out only once "k1" has been
KeyOrder(k) ==
    k = "k2" => \/ asyncDataCache["k1"] # AbsentEntry
                \/ \E j \in Inst : cacheKey[j] = "k1"
                \/ \E p \in 1..Len(promises) : promises[p].key = "k1"

\* first render of useAsyncData(asyncFunc, deps, k) and its effect
Mount(i, k, thr) ==
    /\ phase[i] = "unmounted"
    /\ \A j \in Inst : j < i => phase[j] # "unmounted"
    /\ KeyOrder(k)
    /\ starts < MaxStarts
    /\ LET s == effect([Cur EXCEPT !.phase[i] = "mounted", !.key[i] = k], i, thr)
       IN /\ thr # NullErr => Len(s.prom) > Len(promises)   \* only a call can throw
          /\ Install(s)
          /\ cohort' = [x \in Keys |-> Together(s, x)]
          /\ starts' = starts + 1

\* a render with changed deps, asyncFunc or cacheKey: the old effect's cleanup,
\* then the effect again with the new arguments
Rerun(i, k, thr) ==
    /\ phase[i] = "mounted"
    /\ KeyOrder(k)
    /\ starts < MaxStarts
    /\ LET s == effect([cleanup(Cur, i) EXCEPT !.key[i] = k], i, thr)
       IN /\ thr # NullErr => Len(s.prom) > Len(promises)   \* only a call can throw
          /\ Install(s)
          /\ cohort' = [x \in Keys |-> Together(s, x)]
          /\ starts' = starts + 1

\* the instance unmounts: the effect's cleanup
Unmount(i) ==
    /\ phase[i] = "mounted"
    /\ LET s == [cleanup(Cur, i) EXCEPT !.phase[i] = "torn"]
       IN /\ Install(s)
          /\ cohort' = [x \in Keys |-> Together(s, x)]
          /\ starts' = starts

\* the caller calls the refetch function of a mounted instance
Refetch(i, thr) ==
    /\ phase[i] = "mounted"
    /\ starts < MaxStarts
    /\ LET s == refetch(Cur, i, thr)
       IN /\ thr # NullErr => Len(s.prom) > Len(promises)   \* only a call can throw
          /\ Install(s)
          /\ cohort' = [x \in Keys |-> Together(s, x)]
          /\ starts' = starts + 1

\* the promise of invocation p settles and the coroutines awaiting it resume
Settle(p, v, e) ==
    /\ p \in 1..Len(promises)
    /\ promises[p].st = "unsettled"
    /\ Install(settle(Cur, p, v, e))
    /\ cohort' = cohort
    /\ starts' = starts

\* a coroutine that awaited an already settled promise resumes
ResumeAttach(c) ==
    /\ c \in conts
    /\ promises[c.promise].st # "unsettled"
    /\ Install(resume([Cur EXCEPT !.conts = @ \ {c}], c))
    /\ cohort' = cohort
    /\ starts' = starts

Next ==
    \/ \E i \in Inst, k \in KeyArgs, thr \in ThrowsOf(Len(promises) + 1) : Mount(i, k, thr)
    \/ \E i \in Inst, k \in KeyArgs, thr \in ThrowsOf(Len(promises) + 1) : Rerun(i, k, thr)
    \/ \E i \in Inst : Unmount(i)
    \/ \E i \in Inst, thr \in ThrowsOf(Len(promises) + 1) : Refetch(i, thr)
    \/ \E p \in 1..MaxStarts : Settle(p, ValueOf(p), NullErr)
    \/ \E p \in 1..MaxStarts : \E e \in FailuresOf(p) :
            Cardinality(Failed) < MaxFailures /\ Settle(p, Null, e)
    \/ \E c \in conts : ResumeAttach(c)

Spec == Init /\ [][Next]_vars

\* invocation p has been made and its promise has settled (or the call threw)
Settled(p) == p <= Len(promises) /\ promises[p].st # "unsettled"

\* every producer invocation eventually settles
EverySettles == \A p \in 1..MaxStarts : (p <= Len(promises)) ~> Settled(p)

\* the program when every producer invocation eventually settles and the
\* microtask queue is drained: a coroutine awaiting a settled promise is not
\* left suspended forever
FairSpec ==
    /\ Init /\ [][Next]_vars
    /\ WF_vars(\E c \in conts : ResumeAttach(c))
    /\ EverySettles

\* ------------------------------------------------- the registry on its own
\* subscribe, unsubscribe and notifySubscribers called with arbitrary
\* callbacks `() => void`: a callback <<n, b>> is the n-th one subscribed and,
\* when called, returns (b = "returns") or throws (b = "throws")
Behaviours == {"returns", "throws"}

\* the callbacks registered under key k
Registered(k) == IF k \in DOMAIN subscribers THEN subscribers[k] ELSE {}

\* Set.prototype.forEach(callback => callback()) over cbs: the callbacks are
\* called in insertion order; the first one that throws ends the iteration
\* and its exception leaves forEach
invokeAll(cbs) ==
    LET throwers == {cb \in cbs : cb[2] = "throws"}
    IN IF throwers = {}
       THEN [invoked |-> cbs, threw |-> FALSE]
       ELSE LET first == CHOOSE cb \in throwers : \A x \in throwers : cb[1] <= x[1]
            IN [invoked |-> {cb \in cbs : cb[1] <= first[1]}, threw |-> TRUE]

\* subscribe(k, callback) with a new callback
SubscribeAny(k, b) ==
    LET all == UNION {Registered(x) : x \in Keys}
        n == Cardinality(all) + 1
    IN /\ n <= MaxCallbacks
       /\ \A cb \in all : cb[1] < n
       /\ subscribers' = subscribe(Cur, k, <<n, b>>).subs
       /\ UNCHANGED <<asyncDataCache, phase, cacheKey, data, isLoading, error,
                      latestRequestId, cacheEntryStatus, activeRun, applied,
                      promises, conts, cohort, starts, escaped, notified>>

\* unsubscribe(k, callback) with a registered callback
UnsubscribeAny(k, cb) ==
    /\ cb \in Registered(k)
    /\ subscribers' = unsubscribe(Cur, k, cb).subs
    /\ UNCHANGED <<asyncDataCache, phase, cacheKey, data, isLoading, error,
                   latestRequestId, cacheEntryStatus, activeRun, applied,
                   promises, conts, cohort, starts, escaped, notified>>

\* notifySubscribers(k)
NotifyAny(k) ==
    /\ notified' = [key |-> k, registered |-> Registered(k)] @@ invokeAll(Registered(k))
    /\ UNCHANGED <<asyncDataCache, subscribers, phase, cacheKey, data, isLoading,
                   error, latestRequestId, cacheEntryStatus, activeRun, applied,
                   promises, conts, cohort, starts, escaped>>

NotifyNext ==
    \/ \E k \in Keys, b \in Behaviours : SubscribeAny(k, b)
    \/ \E k \in Keys : \E cb \in Registered(k) : UnsubscribeAny(k, cb)
    \/ \E k \in Keys : NotifyAny(k)

NotifySpec == Init /\ [][NotifyNext]_vars

\* ======================================================================
\* Properties
\* ======================================================================
\* which handler a step is, read off the state change
IsMount(i) == phase[i] = "unmounted" /\ phase'[i] = "mounted"
IsRerun(i) == phase[i] = "mounted" /\ latestRequestId'[i] = latestRequestId[i] + 2
IsRefetch(i) ==
    phase[i] = "mounted" /\ phase'[i] = "mounted"
    /\ latestRequestId'[i] = latestRequestId[i] + 1
IsSettle(p) ==
    p <= Len(promises) /\ promises[p].st = "unsettled" /\ promises'[p].st # "unsettled"

Ids == 1..MaxStarts
Made == 1..Len(promises)
CallsBy(prom, i) == Cardinality({p \in 1..Len(prom) : prom[p].owner = i})
Subscribed(k) ==
    IF k \in DOMAIN subscribers THEN {cb[1] : cb \in subscribers[k]} ELSE {}
\* the failure object the hook exposes for a caught value
Shown(err) == IF err.kind = "Error" THEN err ELSE [kind |-> "Error", text |-> err.text]

\* ---------------------------------------------------------------- C1
\* C1b: when the invocation started under the instance's current epoch
\* settles, the instance exposes that invocation's result.
C1_Latest(i) ==
    \A p \in Ids :
        (IsSettle(p) /\ promises[p].owner = i /\ promises[p].epoch = latestRequestId[i])
        => /\ applied'[i] = p
           /\ promises'[p].st = "resolved" => data'[i] = promises'[p].val
           /\ promises'[p].st = "rejected" => error'[i] = Shown(promises'[p].err)

\* the instance's exposed result changes to that of one of its own
\* invocations that was started under an earlier epoch than its latest
C1_EarlierApplied(i) ==
    /\ applied'[i] # applied[i]
    /\ applied'[i] # 0
    /\ promises'[applied'[i]].owner = i
    /\ promises'[applied'[i]].epoch # latestRequestId'[i]

C1_Adopted(i) ==
    \/ \E c \in conts :
          c.inst = i /\ c.kind = "attach" /\ c.rid = latestRequestId[i]
          /\ c.promise = applied'[i]
    \/ cacheKey'[i] # NoKey /\ asyncDataCache'[cacheKey'[i]].src = applied'[i]

C2_NoSecondInvocation ==
    [][\A j \in Inst : \A k \in Keys :
          LET e == asyncDataCache[k]
          IN ( /\ IsMount(j) \/ IsRerun(j)
               /\ cacheKey'[j] = k
               /\ e.status = "pending"
               /\ promises[e.promise].st = "unsettled"
               /\ promises[e.promise].owner # j
               /\ phase[promises[e.promise].owner] = "mounted"
               /\ cacheKey[promises[e.promise].owner] = k )
             => Len(promises') = Len(promises)]_vars

\* ---------------------------------------------------------------- C3
\* nothing is in flight for key k: every invocation made for it has settled
\* and no coroutine started for it is still suspended
Quiet(k) ==
    /\ \A p \in Made : promises[p].key = k => promises[p].st # "unsettled"
    /\ \A c \in conts : c.key # k

\* C3 as claimed: live instances sharing a key that were in flight at the same
\* time expose the same data and the same error once everything in flight for
\* the key has settled, with no teardown or fetch start in between.
C3_Converge ==
    \A k \in Keys : \A i, j \in cohort[k] :
        Quiet(k) => data[i] = data[j] /\ error[i] = error[j]

\* ---------------------------------------------------------------- C4
\* C4: when the fetch started by a refetch() of a keyed instance settles with
\* its epoch still current, every instance subscribed to the key exposes the
\* new result, and no other instance invokes the producer in that step.
C4_RefetchFanOut ==
    [][\A p \in Ids :
          ( /\ IsSettle(p)
            /\ promises[p].origin = "refetch"
            /\ promises[p].key # NoKey
            /\ promises[p].epoch = latestRequestId[promises[p].owner] )
          => \A j \in Subscribed(promises[p].key) :
                /\ promises'[p].st = "resolved" =>
                      data'[j] = promises'[p].val /\ error'[j] = NullErr
                /\ promises'[p].st = "rejected" =>
                      data'[j] = Null /\ error'[j] = Shown(promises'[p].err)
                /\ j # promises[p].owner =>
                      CallsBy(promises', j) = CallsBy(promises, j)]_vars

\* a refetch of one instance has settled and another instance of the key
\* shows its result
C4_Witness ==
    \E p \in Made : \E j \in Inst :
        /\ promises[p].origin = "refetch" /\ promises[p].st = "resolved"
        /\ promises[p].key # NoKey
        /\ j # promises[p].owner
        /\ j \in Subscribed(promises[p].key)
        /\ promises[p].owner \in Subscribed(promises[p].key)
        /\ applied[j] = p /\ data[j] = promises[p].val
        /\ data[promises[p].owner] = promises[p].val

\* ---------------------------------------------------------------- C5
\* C5: every refetch() of an instance makes exactly one new producer
\* invocation, by that instance, whatever the store holds for its key.
C5_RefetchInvokesOnce ==
    [][\A i \in Inst :
          IsRefetch(i) => /\ Len(promises') = Len(promises) + 1
                          /\ promises'[Len(promises')].owner = i
                          /\ promises'[Len(promises')].epoch = latestRequestId'[i]]_vars

\* the only mounted instance refetched while the entry of its key was
\* Resolved with its own earlier result, which it still shows
C5_Witness ==
    \E i \in Inst : \E p, q \in Made :
        /\ \A j \in Inst \ {i} : phase[j] = "unmounted"
        /\ promises[p].owner = i /\ promises[q].owner = i
        /\ promises[p].key # NoKey /\ promises[q].key = promises[p].key
        /\ promises[q].origin = "refetch" /\ promises[q].st = "unsettled"
        /\ promises[q].epoch = promises[p].epoch + 1
        /\ applied[i] = p /\ data[i] = promises[p].val
        /\ asyncDataCache[promises[q].key].promise = q

\* ---------------------------------------------------------------- C6
\* C6: once an instance is torn down, no later step changes its exposed
\* data, isLoading or error.
C6_TornIsFrozen ==
    [][\A i \in Inst :
          phase[i] = "torn" => /\ data'[i] = data[i]
                               /\ isLoading'[i] = isLoading[i]
                               /\ error'[i] = error[i]]_vars

\* an instance torn down during its fetch, whose invocation settled afterwards
C6_Witness ==
    \E i \in Inst : \E p \in Made :
        /\ phase[i] = "torn"
        /\ promises[p].owner = i
        /\ promises[p].epoch + 1 = latestRequestId[i]
        /\ promises[p].st \in {"resolved", "rejected"}
        /\ isLoading[i] /\ data[i] = Null /\ error[i] = NullErr

\* ---------------------------------------------------------------- C7
\* C7: when an invocation resolves with v and its epoch is still current, the
\* instance exposes data = v, error = null, isLoading = false; if it has a
\* key, the entry becomes Resolved with v and the key's subscribers are
\* notified (they expose v as well).
C7_ResolveApplied ==
    [][\A p \in Ids :
          ( /\ IsSettle(p)
            /\ promises'[p].st = "resolved"
            /\ promises[p].epoch = latestRequestId[promises[p].owner] )
          => LET i == promises[p].owner
                 k == promises[p].key
                 v == promises'[p].val
             IN /\ data'[i] = v /\ error'[i] = NullErr /\ ~isLoading'[i]
                /\ k # NoKey =>
                     /\ asyncDataCache'[k].status = "resolved"
                     /\ asyncDataCache'[k].data = v
                     /\ asyncDataCache'[k].error = NullErr
                     /\ \A j \in Subscribed(k) :
                            data'[j] = v /\ error'[j] = NullErr /\ ~isLoading'[j]]_vars

\* a keyed invocation resolved while current: the entry holds its value and
\* the owner and another subscriber show it
C7_Witness ==
    \E p \in Made : \E j \in Inst :
        /\ promises[p].st = "resolved" /\ promises[p].key # NoKey
        /\ promises[p].origin = "effect"
        /\ asyncDataCache[promises[p].key].status = "resolved"
        /\ asyncDataCache[promises[p].key].data = promises[p].val
        /\ j # promises[p].owner /\ j \in Subscribed(promises[p].key)
        /\ data[j] = promises[p].val /\ ~isLoading[j]
        /\ data[promises[p].owner] = promises[p].val
        /\ ~isLoading[promises[p].owner]

\* ---------------------------------------------------------------- C8
\* C8: when an invocation rejects with e (or throws e) and its epoch is
\* current, the instance exposes data = null, isLoading = false and error = e
\* itself if e is an Error, a wrapper with e's text otherwise; if it has a
\* key, the entry becomes Rejected with that failure object and the key's
\* subscribers are notified (they expose it as well).
C8_RejectApplied ==
    [][/\ \A p \in Ids :
            ( /\ IsSettle(p)
              /\ promises'[p].st = "rejected"
              /\ promises[p].epoch = latestRequestId[promises[p].owner] )
            => LET i == promises[p].owner
                   k == promises[p].key
                   f == Shown(promises'[p].err)
               IN /\ data'[i] = Null /\ error'[i] = f /\ ~isLoading'[i]
                  /\ f.kind = "Error" /\ f.text = promises'[p].err.text
                  /\ k # NoKey =>
                       /\ asyncDataCache'[k].status = "rejected"
                       /\ asyncDataCache'[k].error = f
                       /\ asyncDataCache'[k].data = Null
                       /\ \A j \in Subscribed(k) :
                              data'[j] = Null /\ error'[j] = f /\ ~isLoading'[j]
       /\ ( Len(promises') = Len(promises) + 1
            /\ promises'[Len(promises')].st = "threw" )
          => LET q == Len(promises')
                 i == promises'[q].owner
                 k == promises'[q].key
             IN /\ data'[i] = Null /\ ~isLoading'[i]
                /\ error'[i] = promises'[q].err
                /\ k # NoKey =>
                     /\ asyncDataCache'[k].status = "rejected"
                     /\ asyncDataCache'[k].error = promises'[q].err]_vars

\* a keyed invocation rejected with a value that is no Error while current:
\* the entry, the owner and another subscriber hold the wrapper
C8_Witness ==
    \E p \in Made : \E j \in Inst :
        /\ promises[p].st = "rejected" /\ promises[p].key # NoKey
        /\ promises[p].err.kind = "raw"
        /\ asyncDataCache[promises[p].key].status = "rejected"
        /\ asyncDataCache[promises[p].key].error
              = [kind |-> "Error", text |-> promises[p].err.text]
        /\ j # promises[p].owner /\ j \in Subscribed(promises[p].key)
        /\ error[j] = asyncDataCache[promises[p].key].error
        /\ error[promises[p].owner] = error[j]
        /\ data[j] = Null /\ ~isLoading[j]

C10_RerunInvokes ==
    [][\A i \in Inst :
          IsRerun(i) => CallsBy(promises', i) = CallsBy(promises, i) + 1]_vars

\* ---------------------------------------------------------------- C11
\* instance i has a coroutine suspended at an await under its current request
\* id: its own invocation or the pending handle it attached to
Fetching(i) ==
    \E c \in conts : c.inst = i /\ c.rid = latestRequestId[i]

\* C11 as claimed: a live instance exposes isLoading = TRUE exactly while it
\* awaits, under its current epoch, an invocation of its own or a pending
\* handle it adopted, and isLoading = FALSE otherwise.
C11_LoadingIffFetching ==
    \A i \in Inst : phase[i] = "mounted" => (isLoading[i] <=> Fetching(i))

\* ---------------------------------------------------------------- C12
\* C12 as claimed: every store entry has exactly one of {pending handle,
\* value, failure} populated: the handle only when Pending, the value only when
\* Resolved, the failure only when Rejected.
C12_ExactlyOne ==
    \A k \in Keys :
        LET e == asyncDataCache[k]
        IN e # AbsentEntry =>
              /\ e.promise # 0 <=> e.status = "pending"
              /\ e.data # Null <=> e.status = "resolved"
              /\ e.error # NullErr <=> e.status = "rejected"

\* C12 amended: every store entry is Pending, Resolved or Rejected; the value
\* is populated exactly when Resolved and the failure exactly when Rejected;
\* the handle is populated when Pending, is kept (the promise that produced
\* the value) when Resolved, and is null exactly when Rejected.
C12_PopulatedByStatus ==
    \A k \in Keys :
        LET e == asyncDataCache[k]
        IN e # AbsentEntry =>
              /\ e.status \in {"pending", "resolved", "rejected"}
              /\ e.data # Null <=> e.status = "resolved"
              /\ e.error # NullErr <=> e.status = "rejected"
              /\ e.promise = 0 <=> e.status = "rejected"
              /\ e.status = "resolved" =>
                    /\ e.promise \in Made
                    /\ promises[e.promise].st = "resolved"
                    /\ promises[e.promise].val = e.data

\* the store holds at once a Resolved entry that still carries its handle and
\* a Rejected entry that carries none
C12_Witness ==
    /\ asyncDataCache["k1"].status = "resolved"
    /\ asyncDataCache["k1"].promise # 0
    /\ asyncDataCache["k1"].data # Null
    /\ asyncDataCache["k2"].status = "rejected"
    /\ asyncDataCache["k2"].promise = 0
    /\ asyncDataCache["k2"].error # NullErr

\* ---------------------------------------------------------------- C13
\* C13 as claimed (the safety form): the store never holds a Pending entry
\* for a handle whose operation has already settled.
C13_NoSettledPending ==
    \A k \in Keys :
        asyncDataCache[k].status = "pending"
        => promises[asyncDataCache[k].promise].st = "unsettled"

\* C13 amended: a Pending entry whose handle has settled is one whose
\* originating fetch had been superseded (its epoch was no longer the owner's
\* current epoch) when the handle settled; a handle that settles while its
\* epoch is current always has its Pending entry replaced in that step.
C13_SettledPendingIsStale ==
    \A k \in Keys :
        LET e == asyncDataCache[k]
        IN (e.status = "pending" /\ promises[e.promise].st # "unsettled")
           => /\ promises[e.promise].key = k
              /\ promises[e.promise].epoch
                     < latestRequestId[promises[e.promise].owner]

\* one key is stuck Pending on a settled handle whose owner had moved on, the
\* other key's Pending entry was replaced when its handle settled
C13_Witness ==
    \E p, q \in Made :
        /\ asyncDataCache["k1"].status = "pending"
        /\ asyncDataCache["k1"].promise = p
        /\ promises[p].st = "resolved"
        /\ promises[p].epoch < latestRequestId[promises[p].owner]
        /\ asyncDataCache["k2"].status = "resolved"
        /\ asyncDataCache["k2"].promise = q
        /\ promises[q].st = "resolved"
        /\ promises[q].epoch = latestRequestId[promises[q].owner]

Resumed == conts \ conts'
\* coroutine c was started under an epoch that is no longer its instance's
Stale(c) == c.rid # latestRequestId[c.inst]

\* C15: a settlement delivered to a coroutine whose epoch is stale changes
\* nothing. When every coroutine resumed by a step is stale, all instances'
\* data, isLoading and error, the store and the subscriber registry are
\* unchanged; when the instance's own fetch is the stale one, the store and
\* the registry are unchanged and no other instance is notified.
C15_StaleChangesNothing ==
    [][/\ (Resumed # {} /\ \A c \in Resumed : Stale(c))
          => /\ data' = data /\ isLoading' = isLoading /\ error' = error
             /\ asyncDataCache' = asyncDataCache
             /\ subscribers' = subscribers
             /\ cacheEntryStatus' = cacheEntryStatus
             /\ applied' = applied
       /\ \A c \in Resumed :
             (c.kind = "fetch" /\ Stale(c))
             => /\ asyncDataCache' = asyncDataCache
                /\ subscribers' = subscribers
                /\ \A j \in Inst \ {c.inst} :
                      /\ data'[j] = data[j] /\ isLoading'[j] = isLoading[j]
                      /\ error'[j] = error[j]
      ]_vars

\* a superseded invocation has settled and left no trace: its owner still
\* shows nothing and is loading, the entry of its key is the Pending entry of
\* the owner's later invocation, to which the owner is subscribed
C15_Witness ==
    \E i \in Inst : \E p, q \in Made :
        /\ phase[i] = "mounted"
        /\ promises[p].owner = i /\ promises[p].st = "resolved"
        /\ promises[p].epoch < latestRequestId[i]
        /\ promises[q].owner = i /\ promises[q].st = "unsettled"
        /\ promises[q].epoch = latestRequestId[i]
        /\ promises[q].key = promises[p].key /\ promises[p].key \in Keys
        /\ asyncDataCache[promises[p].key].status = "pending"
        /\ asyncDataCache[promises[p].key].promise = q
        /\ i \in Subscribed(promises[p].key)
        /\ applied[i] = 0 /\ data[i] = Null /\ error[i] = NullErr /\ isLoading[i]
        /\ ~ \E c \in conts : c.promise = p

\* ---------------------------------------------------------------- C16
\* C16: a mount or input change with a key whose entry is Rejected does not
\* adopt the rejection. It invokes the producer once, under the instance's
\* new epoch; when the call returns a promise the entry is replaced by a
\* Pending entry whose handle is that promise, recorded as the instance's own,
\* and the instance is loading with no error (when the call throws instead,
\* the entry becomes the Rejected entry of the new failure).
C16_RejectedIsRetried ==
    [][\A i \in Inst : \A k \in Keys :
          ( /\ IsMount(i) \/ IsRerun(i)
            /\ cacheKey'[i] = k
            /\ asyncDataCache[k].status = "rejected" )
          => LET q == Len(promises) + 1
             IN /\ Len(promises') = q
                /\ promises'[q].owner = i
                /\ promises'[q].epoch = latestRequestId'[i]
                /\ promises'[q].key = k
                /\ promises'[q].st = "unsettled"
                   => /\ asyncDataCache'[k] = Entry(q, "pending", Null, NullErr, 0)
                      /\ cacheEntryStatus'[i] = asyncDataCache'[k]
                      /\ isLoading'[i] /\ error'[i] = NullErr
                      /\ applied'[i] = applied[i]
                      /\ Cont(i, latestRequestId'[i], q, "fetch", k) \in conts'
                /\ promises'[q].st = "threw"
                   => /\ asyncDataCache'[k].status = "rejected"
                      /\ asyncDataCache'[k].src = q
                      /\ applied'[i] = q /\ error'[i] = promises'[q].err
      ]_vars

\* instance j shows the rejection of its own invocation p, which put the
\* Rejected entry; instance i then mounted with the same key and, instead of
\* showing that failure, is loading its own invocation q, whose Pending entry
\* has replaced the Rejected one
C16_Witness ==
    \E i, j \in Inst : \E p, q \in Made :
        /\ i # j /\ phase[i] = "mounted" /\ phase[j] = "mounted"
        /\ cacheKey[i] \in Keys /\ cacheKey[j] = cacheKey[i]
        /\ promises[p].owner = j /\ promises[p].st = "rejected"
        /\ promises[p].epoch = latestRequestId[j]
        /\ applied[j] = p /\ error[j] = Shown(promises[p].err)
        /\ promises[q].owner = i /\ promises[q].st = "unsettled"
        /\ promises[q].origin = "effect"
        /\ latestRequestId[i] = 1
        /\ asyncDataCache[cacheKey[i]] = Entry(q, "pending", Null, NullErr, 0)
        /\ isLoading[i] /\ error[i] = NullErr /\ applied[i] = 0

\* ---------------------------------------------------------------- C17
\* C17: an instance without a cacheKey leaves the store and the subscriber
\* registry untouched. Its mount, its re-run that keeps it without a key, its
\* refetch and its teardown change neither map, each of its fetch starts
\* invokes the producer, and the settlement of its invocations changes
\* neither map and no other instance's state.
C17_KeylessLeavesStoreAlone ==
    [][/\ \A i \in Inst :
             ( \/ IsMount(i) /\ cacheKey'[i] = NoKey
               \/ IsRerun(i) /\ cacheKey[i] = NoKey /\ cacheKey'[i] = NoKey
               \/ IsRefetch(i) /\ cacheKey[i] = NoKey )
             => /\ asyncDataCache' = asyncDataCache
                /\ subscribers' = subscribers
                /\ cacheEntryStatus'[i] = cacheEntryStatus[i]
                /\ CallsBy(promises', i) = CallsBy(promises, i) + 1
                /\ promises'[Len(promises')].key = NoKey
       /\ \A i \in Inst :
             (phase[i] = "mounted" /\ phase'[i] = "torn" /\ cacheKey[i] = NoKey)
             => asyncDataCache' = asyncDataCache /\ subscribers' = subscribers
       /\ (Resumed # {} /\ \A c \in Resumed : c.key = NoKey)
             => /\ asyncDataCache' = asyncDataCache
                /\ subscribers' = subscribers
                /\ \A j \in Inst :
                      (\A c \in Resumed : c.inst # j)
                      => /\ data'[j] = data[j] /\ isLoading'[j] = isLoading[j]
                         /\ error'[j] = error[j]
      ]_vars

\* a keyless instance has mounted, refetched and seen an invocation settle,
\* while the store and the registry hold exactly what the other, keyed
\* instance put there
C17_Witness ==
    \E i, j \in Inst : \E p, q \in Made :
        /\ i # j /\ phase[i] = "mounted" /\ cacheKey[i] = NoKey
        /\ CallsBy(promises, i) = 2
        /\ promises[p].owner = i /\ promises[p].origin = "refetch"
        /\ promises[p].st = "resolved" /\ applied[i] = p /\ ~isLoading[i]
        /\ cacheEntryStatus[i] = IdleEntry
        /\ phase[j] = "mounted" /\ cacheKey[j] = "k1"
        /\ promises[q].owner = j /\ promises[q].st = "unsettled"
        /\ asyncDataCache["k1"] = Entry(q, "pending", Null, NullErr, 0)
        /\ asyncDataCache["k2"] = AbsentEntry
        /\ DOMAIN subscribers = {"k1"}
        /\ subscribers["k1"] = {<<j, activeRun[j]>>}

\* ---------------------------------------------------------------- C18
\* the callbacks registered under key k
CallbacksOf(k) == IF k \in DOMAIN subscribers THEN subscribers[k] ELSE {}

\* C18: the subscriber set of a key is exactly the set of handleCacheUpdate
\* callbacks of the current effect runs of the live instances whose cacheKey
\* is that key, one per instance; nothing is registered under any other key
\* and no callback of a torn-down instance or of an earlier effect run remains.
C18_SubscribersAreAttached ==
    /\ DOMAIN subscribers \subseteq Keys
    /\ \A k \in Keys :
          CallbacksOf(k) = {<<i, activeRun[i]>> :
                               i \in {j \in Inst : phase[j] = "mounted" /\ cacheKey[j] = k}}
    /\ \A i \in Inst : phase[i] = "mounted" => activeRun[i] # 0

\* one instance was attached to "k1", which it had fetched, and has moved to
\* "k2"; the other was attached to "k1" and is torn down: the registry holds
\* one callback, under "k2"
C18_Witness ==
    \E i, j \in Inst : \E p \in Made :
        /\ i # j
        /\ phase[i] = "mounted" /\ cacheKey[i] = "k2"
        /\ promises[p].owner = i /\ promises[p].key = "k1"
        /\ phase[j] = "torn" /\ cacheKey[j] = "k1"
        /\ DOMAIN subscribers = {"k2"}
        /\ subscribers["k2"] = {<<i, activeRun[i]>>}

\* ---------------------------------------------------------------- C19
\* C19: no key of the subscriber registry maps to an empty set.
C19_NoEmptySet ==
    \A k \in DOMAIN subscribers : subscribers[k] # {}

\* the last subscriber of "k1" has unsubscribed, leaving the other key's set
\* alone, and "k1" is no longer a key of the registry
C19_Witness ==
    \E i, j \in Inst :
        /\ phase[i] = "torn" /\ cacheKey[i] = "k1"
        /\ phase[j] = "mounted" /\ cacheKey[j] = "k2"
        /\ "k1" \notin DOMAIN subscribers
        /\ "k2" \in DOMAIN subscribers
        /\ Cardinality(subscribers["k2"]) = 1

\* ---------------------------------------------------------------- C20
\* C20: when every invocation eventually settles, an instance can stay live
\* and loading forever only by starting fetches again and again: a live
\* instance that starts no further fetch and is not torn down eventually
\* exposes isLoading = FALSE.
C20_LoadingEnds ==
    \A i \in Inst :
        <>[](phase[i] = "mounted" /\ isLoading[i])
        => []<><<latestRequestId'[i] # latestRequestId[i]>>_vars

\* every invocation has settled and every coroutine has resumed: two live
\* instances of one key, each of which had invoked the producer, and one of
\* whose invocations had been superseded by a later fetch start, have both
\* stopped loading
C20_Witness ==
    /\ conts = {}
    /\ \A p \in Made : promises[p].st # "unsettled"
    /\ \A i \in Inst :
          /\ phase[i] = "mounted" /\ cacheKey[i] = "k1"
          /\ CallsBy(promises, i) >= 1
          /\ ~isLoading[i]
    /\ \E p \in Made : promises[p].epoch < latestRequestId[promises[p].owner]

\* ---------------------------------------------------------------- C21
\* C21: no failure of the producer leaves a fetch. No coroutine of fetchData
\* or initializeFetch ends by throwing, whatever the outcome and the epoch;
\* the failure of an invocation shows only in the error field of instances
\* (its owner's, or a subscriber's when the invocation had a key) and in the
\* store entry of the invocation's key.
C21_FailureContained ==
    /\ escaped = {}
    /\ \A p \in Made :
          promises[p].st \in {"rejected", "threw"}
          => /\ \A i \in Inst :
                   error[i] = Shown(promises[p].err)
                   => /\ applied[i] = p
                      /\ data[i] = Null
                      /\ i = promises[p].owner \/ promises[p].key \in Keys
             /\ \A k \in Keys :
                   asyncDataCache[k].error = Shown(promises[p].err)
                   => /\ k = promises[p].key
                      /\ asyncDataCache[k].status = "rejected"
                      /\ asyncDataCache[k].src = p

\* an invocation rejected after its owner had started a later fetch: the
\* rejection was caught and dropped, the owner shows no error, no store entry
\* carries it and no coroutine threw
C21_Witness ==
    \E p \in Made :
        /\ promises[p].st = "rejected"
        /\ promises[p].epoch < latestRequestId[promises[p].owner]
        /\ phase[promises[p].owner] = "mounted"
        /\ error[promises[p].owner] = NullErr
        /\ \A k \in Keys : asyncDataCache[k].status # "rejected"
        /\ ~ \E c \in conts : c.promise = p
        /\ escaped = {}

\* ---------------------------------------------------------------- C22
\* C22 as claimed: notifySubscribers(key) invokes every callback registered
\* for the key at the time of the call, also when one of them throws.
C22_AllInvoked ==
    notified.invoked = notified.registered

\* ---------------------------------------------------------------- C23
\* C23: the producer is invoked only by a mount, an input change or a
\* refetch() of some instance, at most once per such event and under that
\* event's epoch; a step that settles a promise or resumes a coroutine
\* (with the notifications it fires) invokes nothing, so a rejected fetch is
\* not retried.
C23_InvokedOnlyOnStart ==
    [][/\ Len(promises') \in {Len(promises), Len(promises) + 1}
       /\ \A q \in Made : /\ promises'[q].owner = promises[q].owner
                          /\ promises'[q].epoch = promises[q].epoch
       /\ Len(promises') = Len(promises) + 1
          => \E i \in Inst :
                /\ IsMount(i) \/ IsRerun(i) \/ IsRefetch(i)
                /\ promises'[Len(promises')].owner = i
                /\ promises'[Len(promises')].epoch = latestRequestId'[i]
                /\ starts' = starts + 1
       /\ ((\E p \in Made : IsSettle(p)) \/ Resumed # {})
          => Len(promises') = Len(promises)
      ]_vars

\* the only invocation of an instance has rejected under its current epoch:
\* the instance shows the failure, is not loading, awaits nothing, and no
\* further invocation has been made for it
C23_Witness ==
    \E i \in Inst : \E p \in Made :
        /\ phase[i] = "mounted"
        /\ promises[p].owner = i /\ promises[p].st = "rejected"
        /\ promises[p].epoch = latestRequestId[i]
        /\ CallsBy(promises, i) = 1
        /\ applied[i] = p /\ error[i] = Shown(promises[p].err)
        /\ ~isLoading[i]
        /\ ~ \E c \in conts : c.inst = i
        /\ \A q \in Made : q <= p

\* ---------------------------------------------------------------- C24
\* C24: no instance ever has data and error both non-null.
C24_DataXorError ==
    \A i \in Inst : data[i] = Null \/ error[i] = NullErr

\* instance i showed the value of its first invocation p (instance j adopted
\* it from the store before being torn down, so p had settled under i's then
\* current epoch), then refetched, and shows the failure of the refetch with
\* its data back to null
C24_Witness ==
    \E i, j \in Inst : \E p, q \in Made :
        /\ i # j /\ phase[i] = "mounted" /\ cacheKey[i] \in Keys
        /\ promises[p].owner = i /\ promises[p].st = "resolved"
        /\ promises[p].key = cacheKey[i]
        /\ phase[j] = "torn" /\ CallsBy(promises, j) = 0
        /\ applied[j] = p /\ data[j] = promises[p].val
        /\ promises[q].owner = i /\ promises[q].origin = "refetch"
        /\ promises[q].epoch = latestRequestId[i]
        /\ promises[q].st \in {"rejected", "threw"}
        /\ applied[i] = q
        /\ error[i] = Shown(promises[q].err) /\ data[i] = Null

====
